---- MODULE Spec2Model ----
(***************************************************************************)
(* Model of the survey service in src/backend/server.js.  The file holds   *)
(* two variants of the same server: the session-token variant (lines       *)
(* 1-251) and the static-secret variant (lines 253-451).  Both share the   *)
(* store code; they differ in the authorization gate and in the routes     *)
(* they register.                                                          *)
(*                                                                         *)
(* Strings are sequences of chunks: a chunk is a piece of text that is    *)
(* never split by the operations modelled (trim looks at whitespace        *)
(* chunks, replace("Bearer ", "") looks at the chunk "Bearer ").  The      *)
(* input sets below never write the same text with two different chunk     *)
(* sequences, so equality of sequences is equality of the strings.         *)
(***************************************************************************)
EXTENDS Integers, Sequences, FiniteSets, TLC

VARIABLES
    variant,         \* which of the two servers of server.js is running
    db,              \* the in-memory sql.js database
    disk,            \* the file at DB_PATH: NoFile or a database image
    activeSessions,  \* the Set of valid session tokens (session variant)
    timers,          \* tokens whose 24-hour setTimeout is still pending
    pending,         \* logins suspended at `await bcrypt.compare`
    minted,          \* how many tokens this deployment has minted so far
    now,             \* the clock read by datetime('now')
    batch,           \* most statements the last boot/handler ran between two saveDb calls
    last             \* the most recent request and the response it got

vars == <<variant, db, disk, activeSessions, timers, pending, minted, now, batch, last>>

---------------------------------------------------------------------------
\* Bounds of the model.

MaxQSeq == 6
MaxRSeq == 2
MaxTokens == 2
MaxStoreTokens == 1
MaxPending == 1
MaxClock == 1
MaxBoard == 6
MaxCreated == 2

---------------------------------------------------------------------------
\* Values.

Undefined == <<"<undefined>">>      \* a missing JSON field or header
WS == " "
BEARER == "Bearer "
JsNull == "<null>"                  \* JSON null
SqlNull == "<NULL>"                 \* SQL NULL
NaN == -1                           \* Number(key) of a non-numeric key
TOPP == "topp"
FLASH == "flash"
NoFile == [tables |-> {"<no file>"}]

\* String.prototype.trim on a chunked string.
RECURSIVE TrimStart(_)
TrimStart(s) ==
    IF s # <<>> /\ Head(s) = WS THEN TrimStart(Tail(s)) ELSE s

RECURSIVE TrimEnd(_)
TrimEnd(s) ==
    IF s # <<>> /\ s[Len(s)] = WS THEN TrimEnd(SubSeq(s, 1, Len(s) - 1)) ELSE s

Trim(s) == TrimEnd(TrimStart(s))

\* `!x?.trim()`: x is missing, or empty after trimming.
Blank(x) == x = Undefined \/ Trim(x) = <<>>

\* String.prototype.replace(chunk, ""): drops the first occurrence only.
RECURSIVE ReplaceFirst(_, _)
ReplaceFirst(s, chunk) ==
    IF s = <<>> THEN <<>>
    ELSE IF Head(s) = chunk THEN Tail(s)
    ELSE <<Head(s)>> \o ReplaceFirst(Tail(s), chunk)

---------------------------------------------------------------------------
\* Environment configuration (process.env.ADMIN_PASSWORD || "admin123").

ADMIN_PASSWORD == <<"admin123">>

\* bcrypt.hash / bcrypt.compare: a hash matches exactly the password hashed.
BcryptHash(pw) == <<"$2b$10$">> \o pw
BcryptCompare(pw, hash) == hash = BcryptHash(pw)

defaults == <<
    <<"Route 1: Red Wall">>,
    <<"Route 2: Blue Corner">>,
    <<"Route 3: Yellow Overhang">>,
    <<"Route 4: Green Slab">>,
    <<"Route 5: Black Crack">> >>

---------------------------------------------------------------------------
\* The database: tables are sequences of rows in rowid order; qseq, rseq
\* and aseq are the AUTOINCREMENT counters kept in sqlite_sequence.

NewDatabase == [
    tables    |-> {},
    questions |-> <<>>,
    responses |-> <<>>,
    answers   |-> <<>>,
    admin     |-> <<>>,
    qseq      |-> 0,
    rseq      |-> 0,
    aseq      |-> 0 ]

\* The progress of one boot or one handler through its statements.
\*   pending: mutating statements run since the last saveDb
\*   batch:   the largest value pending has had
\*   err:     a statement threw; nothing after it runs
\*   rowid:   last_insert_rowid()
Begin(d, f) == [db |-> d, disk |-> f, pending |-> 0, batch |-> 0, err |-> FALSE, rowid |-> 0]

DbRun(s, d) ==
    IF s.err THEN s
    ELSE [s EXCEPT !.db = d, !.pending = @ + 1, !.batch = IF @ > s.pending THEN @ ELSE s.pending + 1]

Throw(s) == [s EXCEPT !.err = TRUE]

saveDb(s) ==
    IF s.err THEN s ELSE [s EXCEPT !.disk = s.db, !.pending = 0]

run(s, d) == saveDb(DbRun(s, d))

\* SQL statements, as functions of the database.
CreateTables(d, names) == [d EXCEPT !.tables = @ \cup names]

InsertAdmin(d, hash) ==
    [d EXCEPT !.admin = Append(@, [id |-> 1, password_hash |-> hash])]

InsertQuestion(d, text, position) ==
    [d EXCEPT !.qseq = @ + 1,
              !.questions = Append(@, [id |-> d.qseq + 1, text |-> text, position |-> position])]

\* Mutant of UpdateQuestionText: the edit also voids the score of every
\* response that answered the edited question.
UpdateQuestionTextRescoring(d, text, id) ==
    LET Answered(r) ==
            \E k \in 1..Len(d.answers) :
                d.answers[k].response_id = r.id /\ d.answers[k].question_id = id
    IN  [d EXCEPT !.questions =
            [i \in 1..Len(@) |-> IF @[i].id = id THEN [@[i] EXCEPT !.text = text] ELSE @[i]],
                  !.responses =
            [i \in 1..Len(@) |-> IF Answered(@[i]) THEN [@[i] EXCEPT !.score = 0] ELSE @[i]]]

UpdateQuestionText(d, text, id) ==
    [d EXCEPT !.questions =
        [i \in 1..Len(@) |-> IF @[i].id = id THEN [@[i] EXCEPT !.text = text] ELSE @[i]]]

\* Mutant of DeleteQuestionRow: the delete cascades to the answers of the question.
DeleteQuestionRowCascade(d, id) ==
    LET Keep(r) == r.id # id
        KeepAnswer(a) == a.question_id # id
    IN  [d EXCEPT !.questions = SelectSeq(@, Keep), !.answers = SelectSeq(@, KeepAnswer)]

DeleteQuestionRow(d, id) ==
    LET Keep(r) == r.id # id
    IN  [d EXCEPT !.questions = SelectSeq(@, Keep)]

InsertResponseRow(d, name, score, at) ==
    [d EXCEPT !.rseq = @ + 1,
              !.responses = Append(@, [id |-> d.rseq + 1, name |-> name, score |-> score,
                                       submitted_at |-> at])]

InsertAnswerRow(d, responseId, questionId, value) ==
    [d EXCEPT !.aseq = @ + 1,
              !.answers = Append(@, [id |-> d.aseq + 1, response_id |-> responseId,
                                     question_id |-> questionId, value |-> value])]

\* Mutant of DeleteAnswersOf: the answers of the response are left behind.
DeleteAnswersOfNone(d, responseId) == d

DeleteAnswersOf(d, responseId) ==
    LET Keep(r) == r.response_id # responseId
    IN  [d EXCEPT !.answers = SelectSeq(@, Keep)]

DeleteResponseRow(d, id) ==
    LET Keep(r) == r.id # id
    IN  [d EXCEPT !.responses = SelectSeq(@, Keep)]

\* SELECT COALESCE(MAX(position), 0) FROM questions: MAX over no rows is
\* NULL, which COALESCE turns into 0.
MaxPosition(rows) ==
    CHOOSE p \in {rows[i].position : i \in 1..Len(rows)} :
        \A i \in 1..Len(rows) : rows[i].position <= p

\* Mutant of CoalesceMaxPosition: the number of rows instead of the largest position.
CoalesceCountPosition(d) == Len(d.questions)

CoalesceMaxPosition(d) ==
    IF d.questions = <<>> THEN 0 ELSE MaxPosition(d.questions)

\* ORDER BY: every order of the row indices I that is ascending in keys.
\* SQL leaves the order of rows with equal keys open, so all are given.
RECURSIVE SortedIdx(_, _)
SortedIdx(keys, I) ==
    IF I = {} THEN {<<>>}
    ELSE UNION { {<<i>> \o rest : rest \in SortedIdx(keys, I \ {i})} :
                 i \in {j \in I : \A k \in I : keys[j] <= keys[k]} }

OrderByAsc(rows, keys) ==
    {[n \in 1..Len(rows) |-> rows[o[n]]] : o \in SortedIdx(keys, 1..Len(rows))}

\* Mutant of OrderByDesc: no ORDER BY, the rows come in rowid order.
OrderByDescUnsorted(rows, keys) == {rows}

OrderByDesc(rows, keys) ==
    OrderByAsc(rows, [i \in 1..Len(rows) |-> 0 - keys[i]])

\* LIMIT n
Limit(rows, n) == SubSeq(rows, 1, IF Len(rows) < n THEN Len(rows) ELSE n)

---------------------------------------------------------------------------
\* Boot: start().

VariantTables(v) ==
    IF v = "session" THEN {"questions", "responses", "answers", "admin"}
    ELSE {"questions", "responses", "answers"}

\* defaults.forEach((text, i) => db.run(INSERT ..., [text, i]))
RECURSIVE SeedDefaults(_, _)
SeedDefaults(s, i) ==
    IF i > Len(defaults) THEN s
    ELSE SeedDefaults(DbRun(s, InsertQuestion(s.db, defaults[i], i - 1)), i + 1)

\* Mutant of Start: the default questions are seeded on every boot.
StartAlwaysSeeding(f, v) ==
    LET d0 == IF f = NoFile THEN NewDatabase ELSE f
        s1 == saveDb(DbRun(Begin(d0, f), CreateTables(d0, VariantTables(v))))
        s2 == IF v = "session" /\ s1.db.admin = <<>>
              THEN saveDb(DbRun(s1, InsertAdmin(s1.db, BcryptHash(ADMIN_PASSWORD))))
              ELSE s1
    IN  saveDb(SeedDefaults(s2, 1))

Start(f, v) ==
    LET d0 == IF f = NoFile THEN NewDatabase ELSE f
        s1 == saveDb(DbRun(Begin(d0, f), CreateTables(d0, VariantTables(v))))
        s2 == IF v = "session" /\ s1.db.admin = <<>>
              THEN saveDb(DbRun(s1, InsertAdmin(s1.db, BcryptHash(ADMIN_PASSWORD))))
              ELSE s1
        s3 == IF Len(s2.db.questions) = 0
              THEN saveDb(SeedDefaults(s2, 1))
              ELSE s2
    IN  s3

---------------------------------------------------------------------------
\* Authorization gate.

\* Session variant: req.headers["authorization"]?.replace("Bearer ", "")
\* must be a non-empty member of activeSessions.
requireAdminSession(h, sessions) ==
    LET token == IF h = Undefined THEN Undefined ELSE ReplaceFirst(h, BEARER)
    IN  /\ token # Undefined
        /\ token # <<>>
        /\ token \in sessions

\* Static variant: the header must be exactly `Bearer ${ADMIN_PASSWORD}`.
requireAdminStatic(h) == h = <<BEARER>> \o ADMIN_PASSWORD

requireAdmin(h) ==
    IF variant = "session" THEN requireAdminSession(h, activeSessions)
    ELSE requireAdminStatic(h)

---------------------------------------------------------------------------
\* Handlers, as functions from the store and the request to the outcome:
\* the statements run (s), the status and the JSON body.

Reply(s, status, body) == [s |-> s, status |-> status, body |-> body]

Error(msg) == [error |-> msg]

Unauthorized(d, f) == Reply(Begin(d, f), 401, Error("Unauthorized"))

\* insert(): db.run, last_insert_rowid(), saveDb.
insert(s, d, rowid) ==
    saveDb(IF s.err THEN s ELSE [DbRun(s, d) EXCEPT !.rowid = rowid])

\* POST /api/questions
\* Mutant of PostQuestion: the maximum is the one read before the latest row
\* was inserted, as if the handler had been suspended between lines 167 and 169.
PostQuestionStaleMax(d, f, text) ==
    IF Blank(text) THEN Reply(Begin(d, f), 400, Error("text is required"))
    ELSE LET before == [d EXCEPT !.questions = SubSeq(@, 1, Len(@) - 1)]
             pos == CoalesceMaxPosition(before) + 1
             s   == insert(Begin(d, f), InsertQuestion(d, Trim(text), pos), d.qseq + 1)
         IN  Reply(s, 200, [id |-> s.rowid, text |-> Trim(text), position |-> pos])

PostQuestion(d, f, text) ==
    IF Blank(text) THEN Reply(Begin(d, f), 400, Error("text is required"))
    ELSE LET pos == CoalesceMaxPosition(d) + 1
             s   == insert(Begin(d, f), InsertQuestion(d, Trim(text), pos), d.qseq + 1)
         IN  Reply(s, 200, [id |-> s.rowid, text |-> Trim(text), position |-> pos])

\* PUT /api/questions/:id
\* Mutant of PutQuestion: the text is stored without the check for a blank.
PutQuestionUnvalidated(d, f, id, text) ==
    Reply(run(Begin(d, f), UpdateQuestionText(d, Trim(text), id)), 200, [ok |-> TRUE])

PutQuestion(d, f, id, text) ==
    IF Blank(text) THEN Reply(Begin(d, f), 400, Error("text is required"))
    ELSE Reply(run(Begin(d, f), UpdateQuestionText(d, Trim(text), id)), 200, [ok |-> TRUE])

\* DELETE /api/questions/:id
\* Mutant of DeleteQuestionById: an id that matches no row is answered 404.
DeleteQuestionByIdStrict(d, f, id) ==
    IF \A i \in 1..Len(d.questions) : d.questions[i].id # id
    THEN Reply(Begin(d, f), 404, Error("Not Found"))
    ELSE Reply(run(Begin(d, f), DeleteQuestionRow(d, id)), 200, [ok |-> TRUE])

DeleteQuestionById(d, f, id) ==
    Reply(run(Begin(d, f), DeleteQuestionRow(d, id)), 200, [ok |-> TRUE])

\* Number(qid) of an object key.
ToNumber(k) ==
    CASE k = "1" -> 1
      [] k = "2" -> 2
      [] k = "3" -> 3
      [] k = "01" -> 1
      [] OTHER -> NaN

\* Keys that are canonical array indices: Object.entries lists them first,
\* in ascending numeric order, then the other keys in insertion order.
IsIndexKey(k) == k \in {"1", "2", "3"}

ObjectEntries(obj) ==
    LET idx == {i \in 1..Len(obj) : IsIndexKey(obj[i].k)}
        IsIdx(e) == IsIndexKey(e.k)
        NotIdx(e) == ~IsIndexKey(e.k)
        ints == SelectSeq(obj, IsIdx)
        sorted == CHOOSE o \in SortedIdx([i \in 1..Len(ints) |-> ToNumber(ints[i].k)],
                                         1..Len(ints)) : TRUE
    IN  [n \in 1..Len(ints) |-> ints[sorted[n]]] \o SelectSeq(obj, NotIdx)

\* Mutant of Reward: a "flash" is scored like a "topp".
RewardFlat(val) == IF val = TOPP \/ val = FLASH THEN 2 ELSE 0

\* The reward table of the reduce at lines 191-193.
Reward(val) == IF val = TOPP THEN 2 ELSE IF val = FLASH THEN 3 ELSE 0

RECURSIVE ScoreOf(_)
ScoreOf(entries) ==
    IF entries = <<>> THEN 0
    ELSE ScoreOf(SubSeq(entries, 1, Len(entries) - 1)) + Reward(entries[Len(entries)].v)

\* Mutant of safeVal: the submitted value is stored as it came.
safeValUnchecked(val) == IF val = JsNull THEN SqlNull ELSE val

safeVal(val) == IF val = TOPP \/ val = FLASH THEN val ELSE SqlNull

\* One db.run of the loop at lines 198-202.  A key that is no number binds
\* as NaN, which SQLite stores as NULL; question_id is NOT NULL (line 92),
\* so the statement is rejected and db.run throws.
InsertAnswer(s, responseId, e) ==
    IF s.err THEN s
    ELSE IF ToNumber(e.k) = NaN THEN Throw(s)
    ELSE DbRun(s, InsertAnswerRow(s.db, responseId, ToNumber(e.k), safeVal(e.v)))

RECURSIVE InsertAnswers(_, _, _)
InsertAnswers(s, responseId, entries) ==
    IF entries = <<>> THEN s
    ELSE InsertAnswers(InsertAnswer(s, responseId, Head(entries)), responseId, Tail(entries))

\* POST /api/responses
PostResponse(d, f, name, answers, at) ==
    IF Blank(name) THEN Reply(Begin(d, f), 400, Error("name is required"))
    ELSE IF answers.type # "object" THEN Reply(Begin(d, f), 400, Error("answers is required"))
    ELSE LET entries    == ObjectEntries(answers.entries)
             score      == ScoreOf(entries)
             responseId == d.rseq + 1
             s1 == DbRun(Begin(d, f), InsertResponseRow(d, Trim(name), score, at))
             s2 == InsertAnswers(s1, responseId, entries)
             s3 == saveDb(s2)
         IN  Reply(s3, 200, [id |-> responseId, score |-> score])

\* DELETE /api/responses/:id
DeleteResponseById(d, f, id) ==
    LET s1 == run(Begin(d, f), DeleteAnswersOf(d, id))
        s2 == run(s1, DeleteResponseRow(s1.db, id))
    IN  Reply(s2, 200, [ok |-> TRUE])

---------------------------------------------------------------------------
\* Read handlers: the set of bodies the query may produce.

\* GET /api/questions
\* Mutant of QuestionList: ORDER BY position DESC.
QuestionListDescending(d) ==
    OrderByDesc(d.questions, [i \in 1..Len(d.questions) |-> d.questions[i].position])

QuestionList(d) ==
    OrderByAsc(d.questions, [i \in 1..Len(d.questions) |-> d.questions[i].position])

\* GET /api/leaderboard
Leaderboard(d) ==
    LET sorted == OrderByDesc(d.responses, [i \in 1..Len(d.responses) |-> d.responses[i].score])
    IN  { LET top == Limit(o, 5)
          IN  [i \in 1..Len(top) |-> [name |-> top[i].name, score |-> top[i].score]]
          : o \in sorted }

\* answerMap of GET /api/responses for one response: a later row of the
\* same question id overwrites an earlier one.
AnswerMap(d, responseId) ==
    LET Mine(a) == a.response_id = responseId
        rows == SelectSeq(d.answers, Mine)
        LastOf(q) == CHOOSE i \in 1..Len(rows) :
                        /\ rows[i].question_id = q
                        /\ \A j \in 1..Len(rows) : rows[j].question_id = q => j <= i
    IN  [q \in {rows[i].question_id : i \in 1..Len(rows)} |-> rows[LastOf(q)].value]

\* GET /api/responses
ResponseList(d) ==
    LET sorted == OrderByDesc(d.responses,
                              [i \in 1..Len(d.responses) |-> d.responses[i].submitted_at])
    IN  { [i \in 1..Len(o) |->
              [id |-> o[i].id, name |-> o[i].name, score |-> o[i].score,
               submitted_at |-> o[i].submitted_at, answers |-> AnswerMap(d, o[i].id)]]
          : o \in sorted }

\* GET /api/analytics
\* Mutant of QuestionStats: total counts every answer row of the question.
QuestionStatsAllRows(d, q) ==
    LET Yes(a)   == a.question_id = q.id /\ a.value = TOPP
        No(a)    == a.question_id = q.id /\ a.value = FLASH
        Total(a) == a.question_id = q.id
    IN  [id |-> q.id, text |-> q.text,
         yes |-> Len(SelectSeq(d.answers, Yes)), no |-> Len(SelectSeq(d.answers, No)),
         total |-> Len(SelectSeq(d.answers, Total))]

QuestionStats(d, q) ==
    LET Yes(a)   == a.question_id = q.id /\ a.value = TOPP
        No(a)    == a.question_id = q.id /\ a.value = FLASH
        Total(a) == a.question_id = q.id /\ a.value # SqlNull
    IN  [id |-> q.id, text |-> q.text,
         yes |-> Len(SelectSeq(d.answers, Yes)), no |-> Len(SelectSeq(d.answers, No)),
         total |-> Len(SelectSeq(d.answers, Total))]

Analytics(d) ==
    { [questions |-> [i \in 1..Len(o) |-> QuestionStats(d, o[i])],
       totalResponses |-> Len(d.responses)]
      : o \in QuestionList(d) }

---------------------------------------------------------------------------
\* Requests.  Each action is one handler run to completion; `last` records
\* the request and its response.

\* The field n alternates from one response to the next, so that a request
\* answered exactly like the one before it is still seen as a step.  The
\* field again tells a question listing that follows a question listing,
\* with no other request in between.
Boot ==
    [route |-> "boot", h |-> Undefined, arg |-> <<>>, status |-> 0, body |-> <<>>, n |-> 0,
     again |-> FALSE]

Respond(route, h, arg, status, body) ==
    [route |-> route, h |-> h, arg |-> arg, status |-> status, body |-> body,
     n |-> 1 - last.n, again |-> FALSE]

\* A handler that may write: the store becomes what its statements left; a
\* throw is answered 500 by the framework's error handler.
Write(route, h, arg, r) ==
    /\ db' = r.s.db
    /\ disk' = r.s.disk
    /\ batch' = r.s.batch
    /\ last' = IF r.s.err
               THEN Respond(route, h, arg, 500, Error("Internal Server Error"))
               ELSE Respond(route, h, arg, r.status, r.body)
    /\ UNCHANGED <<variant, activeSessions, timers, pending, minted, now>>

\* A handler that only reads.
Read(route, h, arg, status, body) ==
    /\ last' = Respond(route, h, arg, status, body)
    /\ batch' = 0
    /\ UNCHANGED <<variant, db, disk, activeSessions, timers, pending, minted, now>>

Health == Read("GET /health", Undefined, <<>>, 200, [ok |-> TRUE])

GetQuestions ==
    \E body \in QuestionList(db) :
        /\ last' = [Respond("GET /api/questions", Undefined, <<>>, 200, body)
                        EXCEPT !.again = (last.route = "GET /api/questions")]
        /\ batch' = 0
        /\ UNCHANGED <<variant, db, disk, activeSessions, timers, pending, minted, now>>

GetLeaderboard ==
    /\ variant = "session"
    /\ \E body \in Leaderboard(db) : Read("GET /api/leaderboard", Undefined, <<>>, 200, body)

CreateQuestion(h, text) ==
    Write("POST /api/questions", h, <<text>>,
          IF requireAdmin(h) THEN PostQuestion(db, disk, text) ELSE Unauthorized(db, disk))

UpdateQuestion(h, id, text) ==
    Write("PUT /api/questions/:id", h, <<id, text>>,
          IF requireAdmin(h) THEN PutQuestion(db, disk, id, text) ELSE Unauthorized(db, disk))

\* Mutant of DeleteQuestion: the route is registered without requireAdmin.
DeleteQuestionUnguarded(h, id) ==
    Write("DELETE /api/questions/:id", h, <<id>>, DeleteQuestionById(db, disk, id))

DeleteQuestion(h, id) ==
    Write("DELETE /api/questions/:id", h, <<id>>,
          IF requireAdmin(h) THEN DeleteQuestionById(db, disk, id) ELSE Unauthorized(db, disk))

SubmitResponse(name, answers) ==
    Write("POST /api/responses", Undefined, <<name, answers>>,
          PostResponse(db, disk, name, answers, now))

GetResponses(h) ==
    IF requireAdmin(h)
    THEN \E body \in ResponseList(db) : Read("GET /api/responses", h, <<>>, 200, body)
    ELSE Read("GET /api/responses", h, <<>>, 401, Error("Unauthorized"))

DeleteResponse(h, id) ==
    /\ variant = "session"
    /\ Write("DELETE /api/responses/:id", h, <<id>>,
             IF requireAdmin(h) THEN DeleteResponseById(db, disk, id)
             ELSE Unauthorized(db, disk))

GetAnalytics(h) ==
    IF requireAdmin(h)
    THEN \E body \in Analytics(db) : Read("GET /api/analytics", h, <<>>, 200, body)
    ELSE Read("GET /api/analytics", h, <<>>, 401, Error("Unauthorized"))

\* The static-secret variant registers no login, leaderboard or response
\* deletion route: the framework answers such a request 404.
UnroutedStatic == {"POST /api/admin/login", "GET /api/leaderboard", "DELETE /api/responses/:id"}

Unrouted(route, h) ==
    /\ variant = "static"
    /\ route \in UnroutedStatic
    /\ Read(route, h, <<>>, 404, Error("Not Found"))

---------------------------------------------------------------------------
\* Login (session variant), expiry and restart.

\* Date.now().toString(36) + Math.random().toString(36).substr(2): the n-th
\* token minted; two logins never draw the same token.
Token(n) == <<"session", ToString(n)>>

RemoveAt(s, i) == SubSeq(s, 1, i - 1) \o SubSeq(s, i + 1, Len(s))

\* POST /api/admin/login up to `await bcrypt.compare` (lines 133-139).
LoginBegin(pw) ==
    /\ variant = "session"
    /\ IF pw = Undefined \/ pw = <<>>
       THEN Read("POST /api/admin/login", Undefined, <<pw>>, 400, Error("Password required"))
       ELSE IF db.admin = <<>>
       THEN Read("POST /api/admin/login", Undefined, <<pw>>, 500, Error("Admin not configured"))
       ELSE /\ pending' = Append(pending, [password |-> pw, hash |-> db.admin[1].password_hash])
            /\ UNCHANGED <<variant, db, disk, activeSessions, timers, minted, now, batch, last>>

\* Mutant of LoginEnd: the token is minted and added before the result of
\* the comparison is looked at.
LoginEndAlwaysGrants(i) ==
    /\ i \in 1..Len(pending)
    /\ pending' = RemoveAt(pending, i)
    /\ batch' = 0
    /\ activeSessions' = activeSessions \cup {Token(minted + 1)}
    /\ timers' = timers \cup {Token(minted + 1)}
    /\ minted' = minted + 1
    /\ last' = IF BcryptCompare(pending[i].password, pending[i].hash)
               THEN Respond("POST /api/admin/login", Undefined, <<pending[i].password>>,
                            200, [token |-> Token(minted + 1)])
               ELSE Respond("POST /api/admin/login", Undefined, <<pending[i].password>>,
                            401, Error("Invalid password"))
    /\ UNCHANGED <<variant, db, disk, now>>

\* The rest of the login handler, once the comparison resolves (lines 139-149).
LoginEnd(i) ==
    /\ i \in 1..Len(pending)
    /\ pending' = RemoveAt(pending, i)
    /\ batch' = 0
    /\ IF BcryptCompare(pending[i].password, pending[i].hash)
       THEN /\ activeSessions' = activeSessions \cup {Token(minted + 1)}
            /\ timers' = timers \cup {Token(minted + 1)}
            /\ minted' = minted + 1
            /\ last' = Respond("POST /api/admin/login", Undefined, <<pending[i].password>>,
                               200, [token |-> Token(minted + 1)])
       ELSE /\ last' = Respond("POST /api/admin/login", Undefined, <<pending[i].password>>,
                               401, Error("Invalid password"))
            /\ UNCHANGED <<activeSessions, timers, minted>>
    /\ UNCHANGED <<variant, db, disk, now>>

\* Mutant of Expire: the timer fires and the token stays in the set.
ExpireKeepsToken(token) ==
    /\ token \in timers
    /\ timers' = timers \ {token}
    /\ UNCHANGED <<variant, db, disk, activeSessions, pending, minted, now, batch, last>>

\* setTimeout(() => activeSessions.delete(token), 24h) fires.
Expire(token) ==
    /\ token \in timers
    /\ timers' = timers \ {token}
    /\ activeSessions' = activeSessions \ {token}
    /\ UNCHANGED <<variant, db, disk, pending, minted, now, batch, last>>

\* The process stops and start() runs again on the file left on disk.
Restart ==
    /\ Len(disk.questions) > 0 \/ disk.qseq <= MaxQSeq
    /\ LET s == Start(disk, variant)
       IN  /\ db' = s.db
           /\ disk' = s.disk
           /\ batch' = s.batch
    /\ activeSessions' = {}
    /\ timers' = {}
    /\ pending' = <<>>
    /\ last' = Boot
    /\ UNCHANGED <<variant, minted, now>>

\* datetime('now') moves on by a second.
Tick ==
    /\ now < MaxClock
    /\ now' = now + 1
    /\ UNCHANGED <<variant, db, disk, activeSessions, timers, pending, minted, batch, last>>

---------------------------------------------------------------------------
\* Initial state: the first boot, with no file at DB_PATH.

Variants == {"session", "static"}

Init ==
    /\ variant \in Variants
    /\ LET s == Start(NoFile, variant)
       IN  /\ db = s.db
           /\ disk = s.disk
           /\ batch = s.batch
    /\ activeSessions = {}
    /\ timers = {}
    /\ pending = <<>>
    /\ minted = 0
    /\ now = 0
    /\ last = Boot

---------------------------------------------------------------------------
\* Request inputs.

Tokens == {Token(n) : n \in 1..MaxTokens}
Credentials == Tokens \cup {ADMIN_PASSWORD}

\* Authorization headers: none, "Bearer <c>", the bare "<c>", and
\* "Bearer Bearer <c>", for each credential c.
Headers ==
    {Undefined}
        \cup {<<BEARER>> \o c : c \in Credentials}
        \cup Credentials
        \cup {<<BEARER, BEARER>> \o c : c \in Credentials}

\* For the store specifications: no header, and "Bearer <c>" for the first
\* tokens and for the configured password.
BearerHeaders ==
    {Undefined} \cup {<<BEARER>> \o c :
                         c \in {Token(n) : n \in 1..MaxStoreTokens} \cup {ADMIN_PASSWORD}}

Texts == {<<WS, "a", WS>>, <<WS>>, Undefined}
Names == {<<"al", WS>>, <<WS, WS>>, Undefined}
Passwords == {ADMIN_PASSWORD, <<"wrong">>, Undefined}

Entry(k, v) == [k |-> k, v |-> v]
Object(entries) == [type |-> "object", entries |-> entries]

SpecExample == Object(<<Entry("1", TOPP), Entry("2", FLASH), Entry("3", "bogus")>>)

\* An object whose keys come in another order than Object.entries lists
\* them, with a null value and two keys ("01", "1") of the same number.
Shuffled == Object(<<Entry("01", TOPP), Entry("2", FLASH), Entry("1", JsNull)>>)

\* An object with a key that is no number.
NonNumeric == Object(<<Entry("x", TOPP), Entry("1", FLASH)>>)

AnswerInputs == {
    [type |-> "undefined", entries |-> <<>>],
    [type |-> "string", entries |-> <<>>],
    Object(<<>>),
    SpecExample,
    Shuffled,
    NonNumeric }

BoardInputs == {
    Object(<<>>),
    SpecExample,
    Object(<<Entry("2", FLASH), Entry("1", JsNull)>>) }

\* For the questions specification: no header, and the header that the
\* running variant accepts from a logged-in admin.
AdminHeaders ==
    {Undefined, IF variant = "session" THEN <<BEARER>> \o Token(1) ELSE <<BEARER>> \o ADMIN_PASSWORD}

QuestionIds == (1..MaxQSeq) \cup {99}
ResponseIds == (1..MaxRSeq) \cup {99}

\* A login may start while the model still has a token and a slot for it.
LoginRoom == Len(pending) < MaxPending /\ minted + Len(pending) < MaxTokens

\* The same for the store specifications: one login at a time.
StoreLoginRoom == pending = <<>> /\ minted < MaxStoreTokens

\* Submissions: every kind of answers with a valid name, and the invalid names.
SubmitInputs ==
    ({<<"al", WS>>} \X AnswerInputs) \cup ({<<WS, WS>>, Undefined} \X {SpecExample})

---------------------------------------------------------------------------
\* Spec: the response store.  Submissions with every kind of body,
\* response deletion, analytics, question deletion, restarts.

Next ==
    \/ \E pw \in {ADMIN_PASSWORD, Undefined} : StoreLoginRoom /\ LoginBegin(pw)
    \/ \E i \in 1..MaxPending : LoginEnd(i)
    \/ \E in \in SubmitInputs : db.rseq < MaxRSeq /\ SubmitResponse(in[1], in[2])
    \/ \E h \in BearerHeaders, id \in ResponseIds : DeleteResponse(h, id)
    \/ \E h \in BearerHeaders : DeleteQuestion(h, 1)
    \/ \E h \in BearerHeaders : GetAnalytics(h)
    \/ \E h \in BearerHeaders : Unrouted("DELETE /api/responses/:id", h)
    \/ Restart

Spec == Init /\ [][Next]_vars

\* SpecQuestions: the questions table.  Creation, edits and deletion of
\* every question, listing, restarts (with re-seeding).

NextQuestions ==
    \/ \E pw \in {ADMIN_PASSWORD, Undefined} : StoreLoginRoom /\ LoginBegin(pw)
    \/ \E i \in 1..MaxPending : LoginEnd(i)
    \/ GetQuestions
    \/ \E h \in AdminHeaders, text \in Texts : db.qseq < MaxQSeq /\ CreateQuestion(h, text)
    \/ \E h \in AdminHeaders, id \in {1, 99} : UpdateQuestion(h, id, <<WS, "a", WS>>)
    \/ \E h \in AdminHeaders, id \in QuestionIds : DeleteQuestion(h, id)
    \/ Restart

SpecQuestions == Init /\ [][NextQuestions]_vars

\* SpecAuth: the authorization gate.  Every route, with every header;
\* logins with right and wrong passwords, expiry, restarts.

NextAuth ==
    \/ Health
    \/ \E pw \in Passwords : LoginRoom /\ LoginBegin(pw)
    \/ \E i \in 1..MaxPending : LoginEnd(i)
    \/ GetQuestions
    \/ GetLeaderboard
    \/ \E h \in Headers : db.qseq = Len(defaults) /\ CreateQuestion(h, <<"a">>)
    \/ \E h \in Headers : UpdateQuestion(h, 1, <<"a">>)
    \/ \E h \in Headers : DeleteQuestion(h, 1)
    \/ db.rseq < 1 /\ SubmitResponse(<<"al">>, SpecExample)
    \/ \E h \in Headers : GetResponses(h)
    \/ \E h \in Headers : DeleteResponse(h, 1)
    \/ \E h \in Headers : GetAnalytics(h)
    \/ \E route \in UnroutedStatic, h \in Headers : Unrouted(route, h)
    \/ \E token \in Tokens : Expire(token)
    \/ Restart

SpecAuth == Init /\ [][NextAuth]_vars

\* SpecBoard: the leaderboard, with more responses than it lists.

NextBoard ==
    \/ \E answers \in BoardInputs : db.rseq < MaxBoard /\ SubmitResponse(<<"al">>, answers)
    \/ GetLeaderboard
    \/ Unrouted("GET /api/leaderboard", Undefined)
    \/ Restart

SpecBoard == Init /\ [][NextBoard]_vars

\* SpecAdmin: an admin maintaining a store that holds responses.  Question
\* creation, edits and deletion, response deletion, with existing and
\* unknown ids; submissions that succeed and that fail part-way; restarts.

AdminSubmits == {SpecExample, NonNumeric}

NextAdmin ==
    \/ StoreLoginRoom /\ LoginBegin(ADMIN_PASSWORD)
    \/ \E i \in 1..MaxPending : LoginEnd(i)
    \/ \E answers \in AdminSubmits : db.rseq < MaxRSeq /\ SubmitResponse(<<"al", WS>>, answers)
    \/ \E h \in AdminHeaders : db.qseq < MaxQSeq /\ CreateQuestion(h, <<"b">>)
    \/ \E h \in AdminHeaders, id \in {1, 99} : UpdateQuestion(h, id, <<WS, "a", WS>>)
    \/ \E h \in AdminHeaders, id \in {1, 99} : DeleteQuestion(h, id)
    \/ \E h \in AdminHeaders, id \in ResponseIds : DeleteResponse(h, id)
    \/ \E h \in AdminHeaders : Unrouted("DELETE /api/responses/:id", h)
    \/ Restart

SpecAdmin == Init /\ [][NextAdmin]_vars

\* SpecValidation: request bodies with missing and blank fields, on every
\* route that reads a body.

NextValidation ==
    \/ \E pw \in {ADMIN_PASSWORD, Undefined, <<>>} : StoreLoginRoom /\ LoginBegin(pw)
    \/ \E i \in 1..MaxPending : LoginEnd(i)
    \/ \E in \in SubmitInputs : db.rseq < MaxRSeq /\ SubmitResponse(in[1], in[2])
    \/ \E h \in AdminHeaders, text \in Texts : db.qseq < MaxQSeq /\ CreateQuestion(h, text)
    \/ \E h \in AdminHeaders, id \in {1, 99}, text \in Texts : UpdateQuestion(h, id, text)
    \/ \E h \in AdminHeaders : Unrouted("POST /api/admin/login", h)

SpecValidation == Init /\ [][NextValidation]_vars

\* SpecResponses: the response listing, with submissions in the same
\* second and in different seconds.

NextResponses ==
    \/ StoreLoginRoom /\ LoginBegin(ADMIN_PASSWORD)
    \/ \E i \in 1..MaxPending : LoginEnd(i)
    \/ \E answers \in {SpecExample, Shuffled} :
          db.rseq < MaxRSeq /\ SubmitResponse(<<"al">>, answers)
    \/ Tick
    \/ \E h \in BearerHeaders : GetResponses(h)
    \/ \E h \in BearerHeaders : DeleteResponse(h, 1)

SpecResponses == Init /\ [][NextResponses]_vars

\* SpecConcurrent: requests that arrive while a login is suspended at its
\* password comparison: question creations (several in a row), deletions
\* and a submission run between the two halves of the login.

NextConcurrent ==
    \/ \E pw \in {ADMIN_PASSWORD, <<"wrong">>} : LoginRoom /\ LoginBegin(pw)
    \/ \E i \in 1..MaxPending : LoginEnd(i)
    \/ \E h \in AdminHeaders :
          db.qseq < Len(defaults) + MaxCreated /\ CreateQuestion(h, <<"b">>)
    \/ \E h \in AdminHeaders, id \in {5, 6} : DeleteQuestion(h, id)
    \/ db.rseq < 1 /\ SubmitResponse(<<"al">>, SpecExample)

SpecConcurrent == Init /\ [][NextConcurrent]_vars

\* SpecRestart: restarts of a store that holds responses, with every
\* question deleted or not, and requests with the token of before.

NextRestart ==
    \/ StoreLoginRoom /\ LoginBegin(ADMIN_PASSWORD)
    \/ \E i \in 1..MaxPending : LoginEnd(i)
    \/ \E answers \in AdminSubmits : db.rseq < MaxRSeq /\ SubmitResponse(<<"al">>, answers)
    \/ \E h \in AdminHeaders, id \in QuestionIds : DeleteQuestion(h, id)
    \/ \E h \in AdminHeaders : GetAnalytics(h)
    \/ Restart

SpecRestart == Init /\ [][NextRestart]_vars

---------------------------------------------------------------------------
\* Properties.

SubmitRoute == "POST /api/responses"

ProtectedRoutes == {
    "POST /api/questions", "PUT /api/questions/:id", "DELETE /api/questions/:id",
    "GET /api/responses", "DELETE /api/responses/:id", "GET /api/analytics" }

\* How many entries of a submitted object carry the value val.
Occurrences(entries, val) == Cardinality({i \in 1..Len(entries) : entries[i].v = val})

ExpectedScore(entries) == 2 * Occurrences(entries, TOPP) + 3 * Occurrences(entries, FLASH)

\* C1: a submission that passes validation stores the new response with
\* score 2 per "topp" + 3 per "flash" + 0 per any other value, whatever the
\* keys are; when it is answered 200 the body carries that same score and
\* the id of that response.
C1_ScoreIsRewardSum ==
    (last.route = SubmitRoute /\ last.status \in {200, 500}) =>
        LET expected == ExpectedScore(last.arg[2].entries)
            newest   == db.responses[Len(db.responses)]
        IN  /\ Len(db.responses) > 0
            /\ newest.id = db.rseq
            /\ newest.score = expected
            /\ last.status = 200 =>
                  /\ last.body.score = expected
                  /\ last.body.id = newest.id

\* C1 witness: the example of the spec, {1:"topp", 2:"flash", 3:"bogus"}, scored 5.
C1_Witness ==
    /\ last.route = SubmitRoute
    /\ last.status = 200
    /\ last.arg[2] = SpecExample
    /\ last.body.score = 5

\* C2: every stored answer value, in memory and on disk, is "topp", "flash"
\* or NULL; a submission whose values fall outside the set is answered 200.
C2_StoredValues ==
    /\ \A i \in 1..Len(db.answers) : db.answers[i].value \in {TOPP, FLASH, SqlNull}
    /\ \A i \in 1..Len(disk.answers) : disk.answers[i].value \in {TOPP, FLASH, SqlNull}
    /\ (/\ last.route = SubmitRoute
        /\ ~Blank(last.arg[1])
        /\ last.arg[2].type = "object"
        /\ \A i \in 1..Len(last.arg[2].entries) : ToNumber(last.arg[2].entries[i].k) # NaN)
       => last.status = 200

\* C2 witness: "bogus" for question 3 was accepted and is stored as NULL.
C2_Witness ==
    /\ last.route = SubmitRoute
    /\ last.status = 200
    /\ \E i \in 1..Len(last.arg[2].entries) :
          /\ last.arg[2].entries[i] = Entry("3", "bogus")
          /\ \E j \in 1..Len(disk.answers) :
                /\ disk.answers[j].response_id = last.body.id
                /\ disk.answers[j].question_id = 3
                /\ disk.answers[j].value = SqlNull

\* C3: a step that creates a question gives it position 1 + the largest
\* position in the table before the step (1 when the table was empty), and
\* the body reports that position and the new row's id.
C3_PositionIsMaxPlusOne ==
    [][(/\ last'.route = "POST /api/questions"
        /\ last'.status = 200
        /\ db'.qseq # db.qseq)
       => LET new == db'.questions[Len(db'.questions)]
          IN  /\ Len(db'.questions) = Len(db.questions) + 1
              /\ \A i \in 1..Len(db.questions) : db.questions[i].position < new.position
              /\ IF db.questions = <<>> THEN new.position = 1
                 ELSE \E i \in 1..Len(db.questions) :
                         db.questions[i].position + 1 = new.position
              /\ last'.body.position = new.position
              /\ last'.body.id = new.id]_vars

\* C3 witness: a question created in an emptied table, at position 1.
C3_Witness ==
    /\ last.route = "POST /api/questions"
    /\ last.status = 200
    /\ Len(db.questions) = 1
    /\ db.questions[1].position = 1
    /\ db.questions[1].id = 6

Bearer(c) == <<BEARER>> \o c

\* C4: in the session variant, a request to a protected route carrying
\* "Bearer <token>" is rejected with 401 exactly when the token's expiry
\* timer is no longer pending in the running process (it fired, or the
\* process restarted since the login), and passes the gate otherwise.
C4_TokenLifetime ==
    [][\A t \in Tokens :
          (/\ variant = "session"
           /\ last'.n # last.n
           /\ last'.route \in ProtectedRoutes
           /\ last'.h = Bearer(t))
          => (last'.status = 401 <=> t \notin timers')]_vars

\* C4 witness: a minted token is rejected, after its expiry or a restart.
C4_Witness ==
    /\ variant = "session"
    /\ minted >= 1
    /\ last.route \in ProtectedRoutes
    /\ last.h = Bearer(Token(1))
    /\ last.status = 401

\* C5 (as claimed): in the session variant a request passes the gate of a
\* protected route only if its header is "Bearer " followed by a token of
\* the active-session set.
C5_Original ==
    [][(/\ variant = "session"
        /\ last'.n # last.n
        /\ last'.route \in ProtectedRoutes
        /\ last'.status # 401)
       => \E t \in activeSessions' : last'.h = Bearer(t)]_vars

\* A header carries a credential when the text of a live token (session
\* variant) or of the configured password (static variant) occurs in it.
Contains(h, c) ==
    \E i \in 1..Len(h) : i + Len(c) - 1 <= Len(h) /\ SubSeq(h, i, i + Len(c) - 1) = c

NoCredential(h) ==
    \/ h = Undefined
    \/ IF variant = "session" THEN \A t \in activeSessions : ~Contains(h, t)
       ELSE ~Contains(h, ADMIN_PASSWORD)

PublicRoutes == {"GET /health", "GET /api/questions", SubmitRoute}

\* C6 (as claimed): in both variants each of the six guarded routes answers
\* a request without a credential 401 and leaves the store alone; health,
\* question listing and submission succeed without one.
C6_Original ==
    [][last'.n # last.n =>
          /\ (last'.route \in ProtectedRoutes /\ NoCredential(last'.h))
                => (last'.status = 401 /\ db' = db /\ disk' = disk)
          /\ last'.route \in PublicRoutes => last'.status = 200]_vars

\* C6 (amended): as claimed, except that the static variant registers no
\* response deletion route and answers that request 404, store untouched.
C6_GuardedRoutes ==
    [][last'.n # last.n =>
          /\ (last'.route \in ProtectedRoutes /\ NoCredential(last'.h))
                => /\ last'.status =
                         IF variant = "static" /\ last'.route = "DELETE /api/responses/:id"
                         THEN 404 ELSE 401
                   /\ db' = db
                   /\ disk' = disk
          /\ last'.route \in PublicRoutes => last'.status = 200]_vars

\* C6 witness: the static variant answers a response deletion 404 and the
\* response is still stored.
C6_Witness ==
    /\ variant = "static"
    /\ last.route = "DELETE /api/responses/:id"
    /\ last.h = Undefined
    /\ last.status = 404
    /\ Len(db.responses) = 1

\* C7 (as claimed): boot and every handler write the file after each
\* mutating statement, so never two statements between two writes, and the
\* file equals the database in memory.
C7_Original == batch <= 1 /\ disk = db

\* C8 (as claimed): a submission answered 200 stored one answer row per
\* submitted key, and a submission not answered 200 left the responses and
\* answers tables as they were.
C8_Original ==
    [][(last'.route = SubmitRoute /\ last'.n # last.n) =>
          IF last'.status = 200
          THEN LET entries == last'.arg[2].entries
                   Mine(a) == a.response_id = last'.body.id
               IN  /\ Len(SelectSeq(db'.answers, Mine)) = Len(entries)
                   /\ \A i \in 1..Len(entries) :
                         \E j \in 1..Len(db'.answers) :
                            /\ Mine(db'.answers[j])
                            /\ db'.answers[j].question_id = ToNumber(entries[i].k)
          ELSE db'.responses = db.responses /\ db'.answers = db.answers]_vars

Min(a, b) == IF a <= b THEN a ELSE b

\* C9: the leaderboard lists min(5, number of responses) entries in
\* non-increasing score order, each a stored response, and for every score
\* v it lists as many entries scoring at least v as there are such
\* responses in the store, up to 5: they are the highest scores.
C9_Leaderboard ==
    (last.route = "GET /api/leaderboard" /\ last.status = 200) =>
        LET body == last.body
            rows == db.responses
            AtLeast(seq, v) == Cardinality({i \in 1..Len(seq) : seq[i].score >= v})
        IN  /\ Len(body) = Min(5, Len(rows))
            /\ \A i \in 1..(Len(body) - 1) : body[i].score >= body[i + 1].score
            /\ \A i \in 1..Len(body) :
                  \E j \in 1..Len(rows) :
                     rows[j].name = body[i].name /\ rows[j].score = body[i].score
            /\ \A j \in 1..Len(rows) :
                  AtLeast(body, rows[j].score) = Min(5, AtLeast(rows, rows[j].score))

\* C9 witness: six responses stored, five listed, with different scores.
C9_Witness ==
    /\ last.route = "GET /api/leaderboard"
    /\ last.status = 200
    /\ Len(db.responses) = 6
    /\ Len(last.body) = 5
    /\ last.body[1].score > last.body[5].score

\* C10: for every question analytics returns, total is the number of stored
\* answers of that question id whose value is not NULL, and yes + no = total.
C10_Analytics ==
    (last.route = "GET /api/analytics" /\ last.status = 200) =>
        \A i \in 1..Len(last.body.questions) :
            LET q == last.body.questions[i]
                NonNull(a) == a.question_id = q.id /\ a.value # SqlNull
            IN  /\ q.total = Len(SelectSeq(db.answers, NonNull))
                /\ q.yes + q.no = q.total
                /\ \E j \in 1..Len(db.questions) : db.questions[j].id = q.id

\* C10 witness: a listed question with an answered row and a NULL row.
C10_Witness ==
    /\ last.route = "GET /api/analytics"
    /\ last.status = 200
    /\ \E i \in 1..Len(last.body.questions) :
          LET q == last.body.questions[i]
              Null(a) == a.question_id = q.id /\ a.value = SqlNull
          IN  q.total >= 1 /\ SelectSeq(db.answers, Null) # <<>>

\* C11: an authorized DELETE /api/questions/:id is answered 200 {ok}, also
\* when stored answers reference the id; it removes the question row of
\* that id and nothing else: every other question, every response and every
\* answer (those of the deleted question included) stay as they were.
C11_DeleteQuestionNoCascade ==
    [][(/\ last'.route = "DELETE /api/questions/:id"
        /\ last'.n # last.n
        /\ requireAdmin(last'.h))
       => LET id == last'.arg[1]
              Other(q) == q.id # id
          IN  /\ last'.status = 200
              /\ last'.body = [ok |-> TRUE]
              /\ db'.questions = SelectSeq(db.questions, Other)
              /\ db'.answers = db.answers
              /\ db'.responses = db.responses
              /\ disk' = db']_vars

\* C11 witness: question 1 was deleted and an answer to it is still stored.
C11_Witness ==
    /\ last.route = "DELETE /api/questions/:id"
    /\ last.status = 200
    /\ \A i \in 1..Len(db.questions) : db.questions[i].id # last.arg[1]
    /\ \E j \in 1..Len(db.answers) : db.answers[j].question_id = last.arg[1]
    /\ Len(db.responses) >= 1

\* C12: GET /api/questions changes neither the store nor the session set,
\* and returns every stored question exactly once in ascending order of
\* position; asked again with no request in between it returns the
\* identical list.  Stored positions are pairwise different (a creation
\* takes the maximum plus one, seeding fills an empty table with 0..4), so
\* the order is the only one the query can produce.
C12_QuestionListIdempotent ==
    [][(last'.route = "GET /api/questions" /\ last'.n # last.n) =>
          LET body == last'.body
              rows == db.questions
          IN  /\ last'.status = 200
              /\ db' = db
              /\ disk' = disk
              /\ activeSessions' = activeSessions
              /\ timers' = timers
              /\ Len(body) = Len(rows)
              /\ \A j \in 1..Len(rows) :
                    Cardinality({i \in 1..Len(body) : body[i] = rows[j]}) = 1
              /\ \A i \in 1..(Len(body) - 1) : body[i].position <= body[i + 1].position
              /\ \A i, j \in 1..Len(rows) : i # j => rows[i].position # rows[j].position
              /\ last.route = "GET /api/questions" => body = last.body]_vars

\* C12 witness: the list was read twice in a row, from a table whose
\* positions are no longer contiguous.
C12_Witness ==
    /\ last.route = "GET /api/questions"
    /\ last.again
    /\ Len(last.body) >= 2
    /\ \E i \in 1..(Len(last.body) - 1) : last.body[i].position + 1 < last.body[i + 1].position

\* C13: a request whose required field is missing or empty is answered 400
\* by the handler that reads it, and the store stays as it was: question
\* creation and update that pass the gate with a text that is absent or
\* blank after trimming; a submission with a name that is absent or blank
\* after trimming, or with answers that are absent or not an object; a
\* login (session variant, the one with the route) with no password.
C13_ValidationRejects ==
    [][last'.n # last.n =>
          LET route == last'.route
              arg   == last'.arg
              Invalid ==
                  \/ /\ route = "POST /api/questions"
                     /\ requireAdmin(last'.h)
                     /\ Blank(arg[1])
                  \/ /\ route = "PUT /api/questions/:id"
                     /\ requireAdmin(last'.h)
                     /\ Blank(arg[2])
                  \/ /\ route = SubmitRoute
                     /\ Blank(arg[1]) \/ arg[2].type # "object"
                  \/ /\ route = "POST /api/admin/login"
                     /\ variant = "session"
                     /\ arg[1] \in {Undefined, <<>>}
          IN  Invalid => /\ last'.status = 400
                         /\ db' = db
                         /\ disk' = disk
                         /\ activeSessions' = activeSessions]_vars

\* C13 witness: an authorized update with a blank text was answered 400 and
\* question 1 still has its seeded text.
C13_Witness ==
    /\ last.route = "PUT /api/questions/:id"
    /\ requireAdmin(last.h)
    /\ last.arg = <<1, <<WS>>>>
    /\ last.status = 400
    /\ db.questions[1].text = defaults[1]

\* C14: an authorized update (with a valid text) or deletion of a question,
\* or deletion of a response (session variant), whose id matches no stored
\* row is answered 200 {ok} and changes nothing: questions, responses and
\* answers are exactly as before.
C14_UnknownIdIsNoOp ==
    [][(last'.n # last.n /\ requireAdmin(last'.h)) =>
          LET route == last'.route
              arg   == last'.arg
              NoQuestion == \A i \in 1..Len(db.questions) : db.questions[i].id # arg[1]
              NoResponse == \A i \in 1..Len(db.responses) : db.responses[i].id # arg[1]
              Unknown ==
                  \/ route = "PUT /api/questions/:id" /\ ~Blank(arg[2]) /\ NoQuestion
                  \/ route = "DELETE /api/questions/:id" /\ NoQuestion
                  \/ route = "DELETE /api/responses/:id" /\ variant = "session" /\ NoResponse
          IN  Unknown => /\ last'.status = 200
                         /\ last'.body = [ok |-> TRUE]
                         /\ db'.questions = db.questions
                         /\ db'.responses = db.responses
                         /\ db'.answers = db.answers]_vars

\* C14 witness: response 99, which was never stored, was deleted by the
\* admin of a store that holds a response and its answers.
C14_Witness ==
    /\ last.route = "DELETE /api/responses/:id"
    /\ last.arg = <<99>>
    /\ last.status = 200
    /\ Len(db.responses) >= 1
    /\ Len(db.answers) >= 1

\* C15 (as claimed): the response listing returned to an authorized caller
\* holds every stored response exactly once, a response submitted later
\* before every response submitted earlier (ids grow with submissions), and
\* each entry maps every question id of its stored answers to a stored value.
C15_Original ==
    (last.route = "GET /api/responses" /\ last.status = 200) =>
        LET body == last.body
            rows == db.responses
        IN  /\ Len(body) = Len(rows)
            /\ \A j \in 1..Len(rows) :
                  Cardinality({i \in 1..Len(body) : body[i].id = rows[j].id}) = 1
            /\ \A i, j \in 1..Len(body) : i < j => body[i].id > body[j].id
            /\ \A i \in 1..Len(body) :
                  LET Mine(a) == a.response_id = body[i].id
                      mine == SelectSeq(db.answers, Mine)
                  IN  /\ DOMAIN body[i].answers = {mine[k].question_id : k \in 1..Len(mine)}
                      /\ \A q \in DOMAIN body[i].answers :
                            \E k \in 1..Len(mine) :
                               mine[k].question_id = q /\ mine[k].value = body[i].answers[q]

\* C16: after an authorized DELETE /api/responses/:id (session variant) the
\* store holds neither the response of that id nor any answer whose
\* response_id is that id; every other response, every other answer and
\* every question are as before, in memory and in the file.
C16_DeleteResponseCascade ==
    [][(/\ last'.route = "DELETE /api/responses/:id"
        /\ last'.n # last.n
        /\ variant = "session"
        /\ requireAdmin(last'.h))
       => LET id == last'.arg[1]
              OtherResponse(r) == r.id # id
              OtherAnswer(a) == a.response_id # id
          IN  /\ last'.status = 200
              /\ db'.responses = SelectSeq(db.responses, OtherResponse)
              /\ db'.answers = SelectSeq(db.answers, OtherAnswer)
              /\ db'.questions = db.questions
              /\ disk' = db']_vars

\* C16 witness: response 1 and its answers are gone, response 2 and its
\* answers are still stored.
C16_Witness ==
    /\ last.route = "DELETE /api/responses/:id"
    /\ last.arg = <<1>>
    /\ last.status = 200
    /\ db.rseq = 2
    /\ Len(db.responses) = 1
    /\ db.responses[1].id = 2
    /\ db.answers # <<>>
    /\ \A i \in 1..Len(db.answers) : db.answers[i].response_id = 2

\* C17: no step changes a stored response: a response that is stored
\* before and after a step (a question edit or deletion, another
\* submission, the deletion of another response, a restart) has the same
\* name, score and submission time after it, and a step that stores a new
\* response leaves all the others alone.
C17_ResponseImmutable ==
    [][/\ \A i \in 1..Len(db.responses), j \in 1..Len(db'.responses) :
             db'.responses[j].id = db.responses[i].id => db'.responses[j] = db.responses[i]
       /\ \A j \in 1..Len(db'.responses) :
             \/ \E i \in 1..Len(db.responses) : db.responses[i].id = db'.responses[j].id
             \/ /\ last'.route = SubmitRoute
                /\ last'.n # last.n
                /\ db'.responses[j].id = db.rseq + 1
                /\ db'.responses[j].score = ExpectedScore(last'.arg[2].entries)]_vars

\* C17 witness: question 1 was edited, then deleted, then the server was
\* restarted, and response 1, which answered it "topp", still scores 5.
C17_Witness ==
    /\ last.route = "boot"
    /\ \A i \in 1..Len(db.questions) : db.questions[i].id # 1
    /\ \E i \in 1..Len(db.responses) :
          /\ db.responses[i].id = 1
          /\ db.responses[i].score = 5
    /\ \E j \in 1..Len(db.answers) :
          /\ db.answers[j].response_id = 1
          /\ db.answers[j].question_id = 1
          /\ db.answers[j].value = TOPP

\* C18: the store changes only in steps that run one handler from its
\* first statement to its response; the two halves of a login, and
\* whatever runs between them, never share a store change: a login step
\* leaves the store alone, and a question created while a login is
\* suspended (or at any other time) takes the id after the last one given
\* and the position after the largest one stored at that moment, so that
\* ids and positions of stored questions are pairwise different.
C18_RunToCompletion ==
    [][/\ (db' # db \/ disk' # disk) => (last'.n # last.n \/ last'.route = "boot")
       /\ pending' # pending => (db' = db /\ disk' = disk)
       /\ (last'.route = "POST /api/admin/login" /\ last'.n # last.n)
             => (db' = db /\ disk' = disk)
       /\ (last'.route = "POST /api/questions" /\ last'.n # last.n /\ last'.status = 200)
             => LET new == db'.questions[Len(db'.questions)]
                IN  /\ db'.questions = Append(db.questions, new)
                    /\ new.id = db.qseq + 1
                    /\ last'.body.id = new.id
                    /\ last'.body.position = new.position
                    /\ \A i \in 1..Len(db.questions) :
                          /\ db.questions[i].id < new.id
                          /\ db.questions[i].position < new.position
       /\ \A i, j \in 1..Len(db'.questions) :
             i # j => /\ db'.questions[i].id # db'.questions[j].id
                      /\ db'.questions[i].position # db'.questions[j].position]_vars

\* C18 witness: two questions were created one after the other, the second
\* while a login was suspended at its comparison.
C18_Witness ==
    /\ last.route = "POST /api/questions"
    /\ last.status = 200
    /\ pending # <<>>
    /\ db.qseq = Len(defaults) + 2
    /\ Len(db.questions) = Len(defaults) + 2
    /\ db.questions[Len(defaults) + 1].position + 1 = db.questions[Len(defaults) + 2].position

\* The five default questions as seeding inserts them after the id last.
Seeded(lastId) ==
    [i \in 1..Len(defaults) |-> [id |-> lastId + i, text |-> defaults[i], position |-> i - 1]]

\* C19: a restart loads the file: responses and answers are as persisted;
\* the questions are as persisted when there are any, and the five defaults
\* at positions 0..4 when the persisted table is empty; the admin row is
\* the persisted one; the file equals the memory image afterwards.  The
\* session set, the timers and the suspended logins are gone, and a
\* protected request that carries a token minted before the restart is
\* answered 401.
C19_Restart ==
    [][/\ (last'.route = "boot" /\ pending' = <<>>) =>
             /\ db'.responses = disk.responses
             /\ db'.answers = disk.answers
             /\ db'.questions =
                   IF disk.questions = <<>> THEN Seeded(disk.qseq) ELSE disk.questions
             /\ db'.admin = disk.admin
             /\ variant = "session" =>
                   /\ Len(db'.admin) = 1
                   /\ BcryptCompare(ADMIN_PASSWORD, db'.admin[1].password_hash)
             /\ disk' = db'
             /\ activeSessions' = {}
             /\ timers' = {}
       /\ (/\ last.route = "boot"
           /\ last'.n # last.n
           /\ variant = "session"
           /\ last'.route \in ProtectedRoutes
           /\ \E k \in 1..minted : last'.h = Bearer(Token(k)))
          => (last'.status = 401 /\ db' = db)]_vars

\* C19 witness: the admin deleted every question, the server restarted and
\* seeded the five defaults again (ids 6..10) next to the stored response,
\* and the token of before the restart was answered 401.
C19_Witness ==
    /\ variant = "session"
    /\ minted = 1
    /\ last.h = Bearer(Token(1))
    /\ last.route \in ProtectedRoutes
    /\ last.status = 401
    /\ db.questions = Seeded(Len(defaults))
    /\ Len(db.responses) >= 1
    /\ Len(db.answers) >= 1

\* C20: session variant.  Every token of the active-session set was minted
\* by this process and its 24-hour timer is still pending; a token enters
\* the set only in the step that answers a login 200 with that token, a
\* fresh one, after the password matched the stored hash; a login answered
\* 400, 401 or 500 leaves the set as it was; and a token leaves the set
\* only when its own timer fires or the process restarts.
C20_SessionSet ==
    [][variant = "session" =>
          /\ activeSessions' \subseteq timers'
          /\ activeSessions' \subseteq {Token(k) : k \in 1..minted'}
          /\ \A t \in activeSessions' \ activeSessions :
                /\ last'.route = "POST /api/admin/login"
                /\ last'.n # last.n
                /\ last'.status = 200
                /\ last'.body = [token |-> t]
                /\ t = Token(minted + 1)
                /\ BcryptCompare(last'.arg[1], db.admin[1].password_hash)
                /\ activeSessions' = activeSessions \cup {t}
          /\ (/\ last'.route = "POST /api/admin/login"
              /\ last'.n # last.n
              /\ last'.status \in {400, 401, 500})
                => (activeSessions' = activeSessions /\ timers' = timers)
          /\ \A t \in activeSessions \ activeSessions' :
                \/ last'.route = "boot" /\ activeSessions' = {}
                \/ timers \ timers' = {t} /\ activeSessions \ activeSessions' = {t}]_vars

\* C20 witness: a login with a wrong password was answered 401 while the
\* token of the earlier, successful login is in the set.
C20_Witness ==
    /\ variant = "session"
    /\ last.route = "POST /api/admin/login"
    /\ last.status = 401
    /\ activeSessions = {Token(1)}
    /\ minted = 1

====
